---- MODULE Spec2Model ----
(***************************************************************************)
(* boca: the watch-render-push pipeline of src/src/main.rs.                *)
(*                                                                         *)
(* One Watch Session (file_watch) with its Delivery Channel (the bounded   *)
(* tokio mpsc channel created in sse_handler), its raw-event queue (the    *)
(* unbounded channel fed by the notify callback), the watched file system  *)
(* and the consumer (the SSE transport holding the receiving half).        *)
(***************************************************************************)
EXTENDS Integers, Sequences, FiniteSets, TLC

(***************************************************************************)
(* Bounds of the model                                                     *)
(***************************************************************************)
\* number of file-system operations / backend notifications the environment
\* performs in the general specification
MaxEnv == 3
\* number of notifications the environment performs in the backpressure
\* specification (enough for the 31st push and one more)
MaxEnvBP == 31
\* number of environment operations in the fair specification
MaxEnvLive == 2
\* number of environment operations in the specification of two sessions
MaxEnvPair == 2

(***************************************************************************)
(* Program constants                                                       *)
(***************************************************************************)
\* retry_read: let count = 3 (count_two: a loop of one iteration less)
count_two == 3 - 1
count == 3

\* sse_handler: channel::<Result<Event, anyhow::Error>>(30)
ChannelCapacity == 30

(***************************************************************************)
(* Data                                                                    *)
(***************************************************************************)
\* "target" is opts.filename; "other" is a file below it when the target is
\* a directory (the watch is RecursiveMode::Recursive)
Paths == {"target", "other"}

\* a text markdown::to_html_with_options returns Err for.  (The markdown crate
\* reports errors for MDX constructs only, which Options::gfm() leaves off;
\* read_to_event handles the Err of the signature all the same.)
Malformed == "<malformed>"

\* texts a file can hold
Contents == {"# Hello", "<script>x</script>", Malformed}

\* a path read_to_string fails on (absent, or a directory)
NoFile == "<unreadable>"

\* notify::EventKind, as far as the pipeline distinguishes it:
\* Access(_), Create(_), Remove(_), Modify(Data(_)), Modify(Metadata(_)),
\* Modify(Name(_)); "error" is the Err(notify::Error) the callback forwards
AccessK == "access"
CreateK == "create"
RemoveK == "remove"
DataK == "data"
MetadataK == "metadata"
NameK == "name"
ErrorK == "error"

\* Result<Event, anyhow::Error>: the item type of the Delivery Channel.
\* trig is the id of the raw event that triggered the pass (0: initial pass).
Pending(t) == [ok |-> FALSE, event |-> "", data |-> "", trig |-> t]

VARIABLES
    pc,          \* position of the file_watch task
    initial,     \* TRUE until the session enters its event loop
    readPath,    \* the path handed to read_to_event
    attempt,     \* retry_read: iterations of the for loop started
    fails,       \* retry_read: reads that returned Err
    sleeps,      \* retry_read: backoff sleeps performed
    cur,         \* the item read_to_event produced, about to be sent
    ret,         \* what file_watch returned; "none" while it runs
    queue,       \* watch_rx: the unbounded raw-event queue
    chan,        \* tx/rx: the bounded Delivery Channel buffer
    rxOpen,      \* the consumer still holds the receiving half
    received,    \* the items the consumer has taken, in order
    watcher,     \* "none", "active" or "released"
    file,        \* the file system: path -> text or NoFile
    targetIsDir, \* opts.filename names a directory
    html_mode,   \* opts.html
    taken,       \* history: the raw events the loop has taken, in order
    pushes,      \* history: number of tx.send calls that succeeded
    produced,    \* history: number of raw events the backend delivered
    envOps,      \* number of environment operations so far
    s2           \* a second session on the same path, with its own queue,
                 \* channel, consumer and watcher: a record of the same fields

vars == <<pc, initial, readPath, attempt, fails, sleeps, cur, ret, queue, chan,
          rxOpen, received, watcher, file, targetIsDir, html_mode, taken,
          pushes, produced, envOps, s2>>

\* everything but the second session
vars1 == <<pc, initial, readPath, attempt, fails, sleeps, cur, ret, queue, chan,
           rxOpen, received, watcher, file, targetIsDir, html_mode, taken,
           pushes, produced, envOps>>

sessionVars == <<pc, initial, readPath, attempt, fails, sleeps, cur, ret>>
\* what no step of the first session, its consumer or its watcher changes:
\* the configuration, and the second session
cfgVars == <<targetIsDir, html_mode, s2>>

(***************************************************************************)
(* Pure functions                                                          *)
(***************************************************************************)
\* notify::EventKind::is_modify, used by the filter of the event loop: true
\* of every Modify(_), so of Data, Metadata and Name (rename) alike.
\* (is_modify_data_only, is_modify_with_create: a narrower and a wider filter)
is_modify_data_only(kind) == kind = DataK
is_modify_with_create(kind) == kind \in {DataK, MetadataK, NameK, CreateK}
is_modify(kind) == kind \in {DataK, MetadataK, NameK}

\* md_opts: Options::gfm(), with allow_dangerous_html, allow_dangerous_protocol
\* set and gfm_tagfilter cleared when html_mode is set
\* (md_opts_keep_tagfilter: the same without clearing gfm_tagfilter)
md_opts_keep_tagfilter(dangerous) ==
    [allow_dangerous_html |-> dangerous,
     allow_dangerous_protocol |-> dangerous,
     gfm_tagfilter |-> TRUE]
md_opts(dangerous) ==
    [allow_dangerous_html |-> dangerous,
     allow_dangerous_protocol |-> dangerous,
     gfm_tagfilter |-> ~dangerous]

\* markdown::to_html_with_options(&md, &md_opts): Ok(markup) or Err(message).
\* Raw HTML is escaped unless allow_dangerous_html; the GFM tag filter
\* escapes the "<" of a script tag that is let through.
to_html_with_options(text, opts) ==
    CASE text = "# Hello" -> [ok |-> TRUE, val |-> "<h1>Hello</h1>"]
      [] text = "<script>x</script>" ->
            [ok |-> TRUE,
             val |-> IF ~opts.allow_dangerous_html
                     THEN "&lt;script&gt;x&lt;/script&gt;"
                     ELSE IF opts.gfm_tagfilter
                          THEN "&lt;script>x&lt;/script>"
                          ELSE "<script>x</script>"]
      [] text = Malformed -> [ok |-> FALSE, val |-> "markdown error"]
      [] OTHER -> [ok |-> TRUE, val |-> "<p>" \o text \o "</p>"]

\* res_html: Ok(h) => h, Err(m) => m.to_string()
to_html(text, dangerous) ==
    to_html_with_options(text, md_opts(dangerous)).val

\* Ok(Event::default().data(res_html).event("body"))
\* (BodyEventPropagating: a read_to_event that would return the Err of the
\* renderer with `?`)
BodyEventPropagating(text, dangerous, t) ==
    LET r == to_html_with_options(text, md_opts(dangerous))
    IN  [ok |-> r.ok, event |-> IF r.ok THEN "body" ELSE "", data |-> r.val,
         trig |-> t]
BodyEvent(text, dangerous, t) ==
    [ok |-> TRUE, event |-> "body", data |-> to_html(text, dangerous), trig |-> t]

\* the Err(anyhow!("Could not read from file ...")) that `?` returns from
\* read_to_event; file_watch sends it as the channel item
ReadErrorItem(t) ==
    [ok |-> FALSE, event |-> "", data |-> "Could not read from file", trig |-> t]

\* tokio mpsc: a successful send appends at the tail of the buffer
\* (ChanPushFront: a buffer that would hand out the newest item first)
ChanPushFront(ch, item) == <<item>> \o ch
ChanPush(ch, item) == Append(ch, item)

\* tokio mpsc: send waits while the buffer holds `capacity` items
\* (ChanHasRoomAlways: an unbounded buffer)
ChanHasRoomAlways(ch) == TRUE
ChanHasRoom(ch) == Len(ch) < ChannelCapacity

\* the path the event-triggered pass reads: file_evt.paths[0]
EventReadPath(evt) == evt.paths[1]

\* the path events are reported for
EvPath == IF targetIsDir THEN "other" ELSE "target"

\* where file_watch starts: the initial read_to_event
\* (StartAtWatch: a session that would set up its watcher first)
StartAtWatch == "watch"
StartPc == "read"

\* `?` on a failed tx.send leaves file_watch
\* (SendFailIgnored: a loop that would go on after a failed send)
SendFailIgnored == "recv"
SendFailPc == "done"

\* `evt?` on a backend error leaves file_watch
\* (BackendErrorIgnored: a loop that would skip a backend error)
BackendErrorIgnored == "recv"
BackendErrorPc == "done"

\* `?` on a failed opts.poller(..) or watcher.watch(..) leaves file_watch
\* (WatchFailIgnored: a session that would enter its loop without a watcher)
WatchFailIgnored == "recv"
WatchFailPc == "done"

\* dropping `watcher` when file_watch returns
Released(w) == IF w = "active" THEN "released" ELSE w

(***************************************************************************)
(* Initial state: sse_handler has created the channel and spawned the task *)
(***************************************************************************)
\* the second session as sse_handler spawns it
Fresh2 ==
    [pc |-> StartPc, initial |-> TRUE, readPath |-> "target", attempt |-> 0,
     fails |-> 0, sleeps |-> 0, cur |-> Pending(0), ret |-> "none",
     queue |-> <<>>, chan |-> <<>>, rxOpen |-> TRUE, received |-> <<>>,
     watcher |-> "none", taken |-> <<>>, pushes |-> 0, produced |-> 0]

InitSession ==
    /\ pc = StartPc
    /\ initial = TRUE
    /\ readPath = "target"
    /\ attempt = 0
    /\ fails = 0
    /\ sleeps = 0
    /\ cur = Pending(0)
    /\ ret = "none"
    /\ queue = <<>>
    /\ chan = <<>>
    /\ rxOpen = TRUE
    /\ received = <<>>
    /\ watcher = "none"
    /\ targetIsDir \in BOOLEAN
    /\ html_mode \in BOOLEAN
    /\ \E c \in Contents \cup {NoFile} :
          file = IF targetIsDir
                 THEN [p \in Paths |-> IF p = "target" THEN NoFile ELSE c]
                 ELSE [p \in Paths |-> IF p = "target" THEN c ELSE NoFile]
    /\ taken = <<>>
    /\ pushes = 0
    /\ produced = 0
    /\ envOps = 0

\* one connection: the second session is never scheduled
Init == InitSession /\ s2 = Fresh2

(***************************************************************************)
(* retry_read and read_to_event                                            *)
(***************************************************************************)
\* one iteration of the for loop: read_to_string(&filepath)
ReadAttempt ==
    /\ pc = "read"
    /\ attempt < count
    /\ attempt' = attempt + 1
    /\ IF file[readPath] # NoFile
       THEN \* Ok(r) => return Ok(r); read_to_event renders and returns
            /\ cur' = BodyEvent(file[readPath], html_mode, cur.trig)
            /\ pc' = "send"
            /\ UNCHANGED fails
       ELSE \* Err(e) => log, fall through to the sleep
            /\ fails' = fails + 1
            /\ pc' = "sleep"
            /\ UNCHANGED cur
    /\ UNCHANGED <<initial, readPath, sleeps, ret, queue, chan, rxOpen,
                   received, watcher, file, taken, pushes, produced, envOps>>
    /\ UNCHANGED cfgVars

\* tokio::time::sleep(300ms) at the end of the loop body; after the last
\* iteration the loop ends and retry_read returns Err
Sleep ==
    /\ pc = "sleep"
    /\ sleeps' = sleeps + 1
    /\ IF attempt < count
       THEN /\ pc' = "read"
            /\ UNCHANGED cur
       ELSE /\ pc' = "send"
            /\ cur' = ReadErrorItem(cur.trig)
    /\ UNCHANGED <<initial, readPath, attempt, fails, ret, queue, chan, rxOpen,
                   received, watcher, file, taken, pushes, produced, envOps>>
    /\ UNCHANGED cfgVars

(***************************************************************************)
(* file_watch                                                              *)
(***************************************************************************)
\* tx.send(item).await succeeds: the buffer has room and the receiver lives
SendOk ==
    /\ pc = "send"
    /\ rxOpen
    /\ ChanHasRoom(chan)
    /\ chan' = ChanPush(chan, cur)
    /\ pushes' = pushes + 1
    /\ pc' = IF initial THEN "watch" ELSE "recv"
    /\ cur' = Pending(0)
    /\ attempt' = 0
    /\ fails' = 0
    /\ sleeps' = 0
    /\ UNCHANGED <<initial, readPath, ret, queue, rxOpen, received, watcher,
                   file, taken, produced, envOps>>
    /\ UNCHANGED cfgVars

\* tx.send(item).await? fails: the receiver is gone; file_watch returns
SendFail ==
    /\ pc = "send"
    /\ ~rxOpen
    /\ pc' = SendFailPc
    /\ watcher' = IF pc' = "done" THEN Released(watcher) ELSE watcher
    /\ ret' = IF pc' = "done" THEN "Err(send)" ELSE ret
    /\ cur' = Pending(0)
    /\ attempt' = 0
    /\ fails' = 0
    /\ sleeps' = 0
    /\ UNCHANGED <<initial, readPath, queue, chan, rxOpen, received, file,
                   taken, pushes, produced, envOps>>
    /\ UNCHANGED cfgVars

\* the target path does not exist when the watcher is set up
TargetMissing == ~targetIsDir /\ file["target"] = NoFile

\* opts.poller(..)? and watcher.watch(path, Recursive)? succeed. On a
\* missing path the polling backend reports the failure through the callback.
MkWatchOk ==
    /\ pc = "watch"
    /\ watcher' = "active"
    /\ initial' = FALSE
    /\ pc' = "recv"
    /\ IF TargetMissing
       THEN /\ queue' = Append(queue, [id |-> produced + 1, kind |-> ErrorK,
                                       paths |-> <<"target">>])
            /\ produced' = produced + 1
       ELSE UNCHANGED <<queue, produced>>
    /\ UNCHANGED <<readPath, attempt, fails, sleeps, cur, ret, chan, rxOpen,
                   received, file, taken, pushes, envOps>>
    /\ UNCHANGED cfgVars

\* opts.poller(..)? or watcher.watch(..)? fails: file_watch returns the error
MkWatchFail ==
    /\ pc = "watch"
    /\ TargetMissing
    /\ pc' = WatchFailPc
    /\ ret' = IF pc' = "done" THEN "Err(watch)" ELSE ret
    /\ UNCHANGED <<initial, readPath, attempt, fails, sleeps, cur, queue,
                   chan, rxOpen, received, watcher, file, taken, pushes,
                   produced, envOps>>
    /\ UNCHANGED cfgVars

\* one iteration of `while let Some(evt) = watch_rx.recv().await`
Recv ==
    /\ pc = "recv"
    /\ queue # <<>>
    /\ LET evt == Head(queue) IN
       /\ queue' = Tail(queue)
       /\ taken' = Append(taken, [id |-> evt.id, kind |-> evt.kind])
       /\ IF evt.kind = ErrorK
          THEN \* let file_evt = evt?;
               /\ pc' = BackendErrorPc
               /\ watcher' = IF pc' = "done" THEN Released(watcher) ELSE watcher
               /\ ret' = IF pc' = "done" THEN "Err(backend)" ELSE ret
               /\ UNCHANGED <<readPath, cur>>
          ELSE IF is_modify(evt.kind)
          THEN \* read_to_event(file_evt.paths[0], opts.html)
               /\ readPath' = EventReadPath(evt)
               /\ cur' = Pending(evt.id)
               /\ pc' = "read"
               /\ UNCHANGED <<watcher, ret>>
          ELSE /\ UNCHANGED <<pc, readPath, cur, watcher, ret>>
    /\ UNCHANGED <<initial, attempt, fails, sleeps, chan, rxOpen, received,
                   file, pushes, produced, envOps>>
    /\ UNCHANGED cfgVars

SessionStep == ReadAttempt \/ Sleep \/ SendOk \/ SendFail \/ MkWatchOk
               \/ MkWatchFail \/ Recv

(***************************************************************************)
(* The consumer: ReceiverStream polled by the SSE transport                *)
(***************************************************************************)
ConsumerRecv ==
    /\ rxOpen
    /\ chan # <<>>
    /\ received' = Append(received, Head(chan))
    /\ chan' = Tail(chan)
    /\ UNCHANGED sessionVars
    /\ UNCHANGED <<queue, rxOpen, watcher, file, taken, pushes, produced, envOps>>
    /\ UNCHANGED cfgVars

\* the transport drops the receiver: the channel closes, buffered items go
ConsumerDepart ==
    /\ rxOpen
    /\ rxOpen' = FALSE
    /\ chan' = <<>>
    /\ UNCHANGED sessionVars
    /\ UNCHANGED <<queue, received, watcher, file, taken, pushes, produced, envOps>>
    /\ UNCHANGED cfgVars

(***************************************************************************)
(* The environment: the file system and the notify backend.  The callback  *)
(* of file_watch forwards every notification with watch_tx.send(res).      *)
(***************************************************************************)
\* (EmitUnlessBusy: a callback that would drop what arrives while the loop
\* is not waiting in recv)
EmitUnlessBusy(kind) ==
    IF watcher = "active" /\ pc = "recv"
    THEN /\ queue' = Append(queue, [id |-> produced + 1, kind |-> kind,
                                    paths |-> <<EvPath>>])
         /\ produced' = produced + 1
    ELSE UNCHANGED <<queue, produced>>
Emit(kind) ==
    IF watcher = "active"
    THEN /\ queue' = Append(queue, [id |-> produced + 1, kind |-> kind,
                                    paths |-> <<EvPath>>])
         /\ produced' = produced + 1
    ELSE UNCHANGED <<queue, produced>>

EnvFrame(max) ==
    /\ envOps < max
    /\ envOps' = envOps + 1
    /\ UNCHANGED sessionVars
    /\ UNCHANGED <<chan, rxOpen, received, watcher, taken, pushes>>
    /\ UNCHANGED cfgVars

EnvWrite(max) ==
    /\ EnvFrame(max)
    /\ file[EvPath] # NoFile
    /\ \E c \in Contents : file' = [file EXCEPT ![EvPath] = c]
    /\ Emit(DataK)

EnvTouch(max) ==
    /\ EnvFrame(max)
    /\ watcher = "active"
    /\ file[EvPath] # NoFile
    /\ UNCHANGED file
    /\ Emit(MetadataK)

EnvAccess(max) ==
    /\ EnvFrame(max)
    /\ watcher = "active"
    /\ file[EvPath] # NoFile
    /\ UNCHANGED file
    /\ Emit(AccessK)

EnvRemove(max) ==
    /\ EnvFrame(max)
    /\ file[EvPath] # NoFile
    /\ file' = [file EXCEPT ![EvPath] = NoFile]
    /\ Emit(RemoveK)

EnvRename(max) ==
    /\ EnvFrame(max)
    /\ file[EvPath] # NoFile
    /\ file' = [file EXCEPT ![EvPath] = NoFile]
    /\ Emit(NameK)

EnvCreate(max) ==
    /\ EnvFrame(max)
    /\ file[EvPath] = NoFile
    /\ \E c \in Contents : file' = [file EXCEPT ![EvPath] = c]
    /\ Emit(CreateK)

EnvBackendError(max) ==
    /\ EnvFrame(max)
    /\ watcher = "active"
    /\ UNCHANGED file
    /\ Emit(ErrorK)

Env(max) == EnvWrite(max) \/ EnvTouch(max) \/ EnvAccess(max) \/ EnvRemove(max)
            \/ EnvRename(max) \/ EnvCreate(max) \/ EnvBackendError(max)

(***************************************************************************)
(* The second session: the same file_watch task, on its own state          *)
(***************************************************************************)
ReadAttempt2 ==
    /\ s2.pc = "read"
    /\ s2.attempt < count
    /\ s2' = IF file[s2.readPath] # NoFile
             THEN [s2 EXCEPT !.attempt = @ + 1,
                             !.cur = BodyEvent(file[s2.readPath], html_mode,
                                               s2.cur.trig),
                             !.pc = "send"]
             ELSE [s2 EXCEPT !.attempt = @ + 1, !.fails = @ + 1, !.pc = "sleep"]
    /\ UNCHANGED vars1

Sleep2 ==
    /\ s2.pc = "sleep"
    /\ s2' = IF s2.attempt < count
             THEN [s2 EXCEPT !.sleeps = @ + 1, !.pc = "read"]
             ELSE [s2 EXCEPT !.sleeps = @ + 1, !.pc = "send",
                             !.cur = ReadErrorItem(s2.cur.trig)]
    /\ UNCHANGED vars1

\* (SendOk2Shared: sessions that would all send on one process-wide channel)
SendOk2Shared ==
    /\ s2.pc = "send"
    /\ rxOpen
    /\ ChanHasRoom(chan)
    /\ chan' = ChanPush(chan, s2.cur)
    /\ s2' = [s2 EXCEPT !.pushes = @ + 1,
                        !.pc = IF s2.initial THEN "watch" ELSE "recv",
                        !.cur = Pending(0), !.attempt = 0, !.fails = 0,
                        !.sleeps = 0]
    /\ UNCHANGED <<pc, initial, readPath, attempt, fails, sleeps, cur, ret,
                   queue, rxOpen, received, watcher, file, targetIsDir,
                   html_mode, taken, pushes, produced, envOps>>
SendOk2 ==
    /\ s2.pc = "send"
    /\ s2.rxOpen
    /\ ChanHasRoom(s2.chan)
    /\ s2' = [s2 EXCEPT !.chan = ChanPush(@, s2.cur),
                        !.pushes = @ + 1,
                        !.pc = IF s2.initial THEN "watch" ELSE "recv",
                        !.cur = Pending(0), !.attempt = 0, !.fails = 0,
                        !.sleeps = 0]
    /\ UNCHANGED vars1

SendFail2 ==
    /\ s2.pc = "send"
    /\ ~s2.rxOpen
    /\ s2' = [s2 EXCEPT !.pc = SendFailPc,
                        !.watcher = IF SendFailPc = "done" THEN Released(@) ELSE @,
                        !.ret = IF SendFailPc = "done" THEN "Err(send)" ELSE @,
                        !.cur = Pending(0), !.attempt = 0, !.fails = 0,
                        !.sleeps = 0]
    /\ UNCHANGED vars1

MkWatchOk2 ==
    /\ s2.pc = "watch"
    /\ s2' = IF TargetMissing
             THEN [s2 EXCEPT !.watcher = "active", !.initial = FALSE,
                             !.pc = "recv",
                             !.queue = Append(@, [id |-> s2.produced + 1,
                                                  kind |-> ErrorK,
                                                  paths |-> <<"target">>]),
                             !.produced = @ + 1]
             ELSE [s2 EXCEPT !.watcher = "active", !.initial = FALSE,
                             !.pc = "recv"]
    /\ UNCHANGED vars1

MkWatchFail2 ==
    /\ s2.pc = "watch"
    /\ TargetMissing
    /\ s2' = [s2 EXCEPT !.pc = WatchFailPc,
                        !.ret = IF WatchFailPc = "done" THEN "Err(watch)" ELSE @]
    /\ UNCHANGED vars1

Recv2 ==
    /\ s2.pc = "recv"
    /\ s2.queue # <<>>
    /\ LET evt == Head(s2.queue)
           t == [s2 EXCEPT !.queue = Tail(@),
                           !.taken = Append(@, [id |-> evt.id, kind |-> evt.kind])]
       IN  s2' = IF evt.kind = ErrorK
                 THEN [t EXCEPT !.pc = BackendErrorPc,
                                !.watcher = IF BackendErrorPc = "done"
                                            THEN Released(@) ELSE @,
                                !.ret = IF BackendErrorPc = "done"
                                        THEN "Err(backend)" ELSE @]
                 ELSE IF is_modify(evt.kind)
                 THEN [t EXCEPT !.readPath = EventReadPath(evt),
                                !.cur = Pending(evt.id),
                                !.pc = "read"]
                 ELSE t
    /\ UNCHANGED vars1

SessionStep2 == ReadAttempt2 \/ Sleep2 \/ SendOk2 \/ SendFail2 \/ MkWatchOk2
                \/ MkWatchFail2 \/ Recv2

ConsumerRecv2 ==
    /\ s2.rxOpen
    /\ s2.chan # <<>>
    /\ s2' = [s2 EXCEPT !.received = Append(@, Head(s2.chan)), !.chan = Tail(@)]
    /\ UNCHANGED vars1

ConsumerDepart2 ==
    /\ s2.rxOpen
    /\ s2' = [s2 EXCEPT !.rxOpen = FALSE, !.chan = <<>>]
    /\ UNCHANGED vars1

\* the callback of the second session's watcher
Emit2(kind) ==
    s2' = IF s2.watcher = "active"
          THEN [s2 EXCEPT !.queue = Append(@, [id |-> s2.produced + 1,
                                               kind |-> kind,
                                               paths |-> <<EvPath>>]),
                          !.produced = @ + 1]
          ELSE s2

\* the file system seen by both watchers, and the backend of the second one
PairFrame ==
    /\ envOps < MaxEnvPair
    /\ envOps' = envOps + 1
    /\ UNCHANGED sessionVars
    /\ UNCHANGED <<chan, rxOpen, received, watcher, taken, pushes, targetIsDir,
                   html_mode>>

PairTouch ==
    /\ PairFrame
    /\ file[EvPath] # NoFile
    /\ UNCHANGED file
    /\ Emit(MetadataK)
    /\ Emit2(MetadataK)

PairRemove ==
    /\ PairFrame
    /\ file[EvPath] # NoFile
    /\ file' = [file EXCEPT ![EvPath] = NoFile]
    /\ Emit(RemoveK)
    /\ Emit2(RemoveK)

PairBackendError2 ==
    /\ PairFrame
    /\ s2.watcher = "active"
    /\ UNCHANGED <<file, queue, produced>>
    /\ Emit2(ErrorK)

(***************************************************************************)
(* Specifications                                                          *)
(***************************************************************************)
Next == SessionStep \/ ConsumerRecv \/ ConsumerDepart \/ Env(MaxEnv)

Spec == Init /\ [][Next]_vars

\* Backpressure: one readable file that is touched again and again, and a
\* consumer that stays connected and takes items whenever it likes (or not
\* at all: nothing forces ConsumerRecv).
InitBP ==
    /\ Init
    /\ ~targetIsDir
    /\ ~html_mode
    /\ file["target"] = "# Hello"

NextBP == ReadAttempt \/ SendOk \/ MkWatchOk \/ Recv \/ ConsumerRecv
          \/ EnvTouch(MaxEnvBP)

SpecBP == InitBP /\ [][NextBP]_vars

\* Fairness: file_watch is a spawned tokio task, so it takes its next step
\* whenever it can (a read, a sleep that elapses, a send with room or a closed
\* channel, a recv on a non-empty queue).  Nothing obliges the environment to
\* change the file or the consumer to poll.
NextLive == SessionStep \/ ConsumerRecv \/ ConsumerDepart \/ Env(MaxEnvLive)

FairSpec == Init /\ [][NextLive]_vars /\ WF_vars(SessionStep)

\* Departure under backpressure: as SpecBP, with a consumer that drops its
\* receiver while the session is suspended in a send on the full channel.
ConsumerDepartWhileBlocked ==
    /\ pc = "send"
    /\ Len(chan) = ChannelCapacity
    /\ ConsumerDepart

SessionStepBP == ReadAttempt \/ SendOk \/ SendFail \/ MkWatchOk \/ Recv

NextBlocked == SessionStepBP \/ ConsumerRecv \/ ConsumerDepartWhileBlocked
               \/ EnvTouch(MaxEnvBP)

FairSpecBlocked == InitBP /\ [][NextBlocked]_vars /\ WF_vars(SessionStepBP)

\* A consumer that stays connected and keeps receiving: the session task and
\* the consumer both take their step whenever they can.
SessionStepConn == ReadAttempt \/ Sleep \/ SendOk \/ MkWatchOk \/ MkWatchFail
                   \/ Recv

NextConn == SessionStepConn \/ ConsumerRecv \/ Env(MaxEnvLive)

FairSpecConn ==
    Init /\ [][NextConn]_vars /\ WF_vars(SessionStepConn) /\ WF_vars(ConsumerRecv)

\* A readable file that is only ever rewritten: every change of the file is
\* a data modification, and the consumer stays connected.
InitWrites ==
    /\ Init
    /\ ~targetIsDir
    /\ file["target"] # NoFile

NextWrites == ReadAttempt \/ SendOk \/ MkWatchOk \/ Recv \/ ConsumerRecv
              \/ EnvWrite(MaxEnv)

SpecWrites == InitWrites /\ [][NextWrites]_vars

\* Two connections on the same path.  The second session is either spawned
\* together with the first, or an older one found suspended in its 31st push:
\* 30 items buffered, none taken (the state SpecBP reaches after 30 touches).
Blocked2 ==
    [pc |-> "send", initial |-> FALSE, readPath |-> "target", attempt |-> 1,
     fails |-> 0, sleeps |-> 0,
     cur |-> BodyEvent("# Hello", FALSE, ChannelCapacity), ret |-> "none",
     queue |-> <<>>,
     chan |-> [i \in 1 .. ChannelCapacity |-> BodyEvent("# Hello", FALSE, i - 1)],
     rxOpen |-> TRUE, received |-> <<>>, watcher |-> "active",
     taken |-> [i \in 1 .. ChannelCapacity |-> [id |-> i, kind |-> MetadataK]],
     pushes |-> ChannelCapacity, produced |-> ChannelCapacity]

InitPair ==
    /\ InitSession
    /\ ~targetIsDir
    /\ ~html_mode
    /\ file["target"] = "# Hello"
    /\ s2 \in {Fresh2, Blocked2}

NextPair == SessionStep \/ ConsumerRecv \/ ConsumerDepart
            \/ SessionStep2 \/ ConsumerRecv2 \/ ConsumerDepart2
            \/ PairTouch \/ PairRemove \/ PairBackendError2
            \/ EnvBackendError(MaxEnvPair)

SpecPair == InitPair /\ [][NextPair]_vars

(***************************************************************************)
(* Vocabulary of the properties                                            *)
(***************************************************************************)
\* the states of section 4.5
SessionState ==
    IF pc = "done" THEN "Terminated"
    ELSE IF initial THEN "Starting" ELSE "Watching"

\* the items the consumer has or will get, oldest first
Delivered == received \o chan

Trigs(s) == [i \in DOMAIN s |-> s[i].trig]

\* ids of the taken events whose kind is in K, in the order they were taken
RECURSIVE IdsOfKind(_, _)
IdsOfKind(t, K) ==
    IF t = <<>> THEN <<>>
    ELSE IF Head(t).kind \in K
         THEN <<Head(t).id>> \o IdsOfKind(Tail(t), K)
         ELSE IdsOfKind(Tail(t), K)

\* the event classes the loop renders for
ModifyKinds == {DataK, MetadataK, NameK}

InPass == pc \in {"read", "sleep", "send"}

ErrTaken(t) == \E i \in DOMAIN t : t[i].kind = ErrorK

\* this step takes the head of the raw-event queue
TakesEvent == pc = "recv" /\ queue # <<>> /\ taken' # taken

\* the taken event started nothing
DiscardStep ==
    /\ pc' = "recv"
    /\ UNCHANGED <<initial, readPath, attempt, fails, sleeps, cur, ret, chan,
                   received, rxOpen, watcher, pushes, file>>

(***************************************************************************)
(* C1: while the consumer is connected, the items it has or will get are   *)
(* the initial render followed by one render per accepted event taken so   *)
(* far, in the order the events were taken (the last one missing while its *)
(* pass is still running); events are taken in arrival order; and once the *)
(* queue and the channel are drained the consumer holds exactly N+1 items  *)
(* for the N accepted events the Event Source delivered.                   *)
(***************************************************************************)
C1_Expected ==
    LET full == <<0>> \o IdsOfKind(taken, ModifyKinds)
    IN  IF InPass THEN SubSeq(full, 1, Len(full) - 1) ELSE full

C1_Ordering ==
    /\ Len(taken) + Len(queue) = produced
    /\ \A i \in DOMAIN taken : taken[i].id = i
    /\ rxOpen => Trigs(Delivered) = C1_Expected
    /\ (rxOpen /\ pc = "recv" /\ queue = <<>> /\ chan = <<>>)
          => Len(received) = Len(IdsOfKind(taken, ModifyKinds)) + 1

C1_Witness ==
    /\ rxOpen /\ pc = "recv" /\ queue = <<>> /\ chan = <<>>
    /\ Len(received) = 3
    /\ Len(taken) = 3

(***************************************************************************)
(* C2 (as stated): taking an accessed, created, removed or renamed event   *)
(* starts nothing and changes nothing, and only data-modified and          *)
(* metadata-modified events start a pass.                                  *)
(***************************************************************************)
C2_Original ==
    [][TakesEvent =>
         LET k == Head(queue).kind IN
         /\ k \in {AccessK, CreateK, RemoveK, NameK} => DiscardStep
         /\ pc' = "read" => k \in {DataK, MetadataK}]_vars

(***************************************************************************)
(* C2 (amended): taking an accessed, created or removed event starts       *)
(* nothing and changes nothing; a pass is started exactly for the modify   *)
(* classes: data-modified, metadata-modified and renamed.                  *)
(***************************************************************************)
C2_Amended ==
    [][TakesEvent =>
         LET k == Head(queue).kind IN
         /\ k \in {AccessK, CreateK, RemoveK} => DiscardStep
         /\ pc' = "read" <=> k \in {DataK, MetadataK, NameK}
         /\ pc' = "read" => attempt' = 0 /\ chan' = chan /\ pushes' = pushes]_vars

C2_Witness ==
    /\ pc = "recv"
    /\ pushes = 1
    /\ Len(taken) = 2
    /\ taken[1].kind \in {AccessK, CreateK, RemoveK}
    /\ taken[2].kind \in {AccessK, CreateK, RemoveK}

(***************************************************************************)
(* C3 (as stated): a read that failed on all attempts reaches the consumer *)
(* as a normal frame (an Ok item with event name "body") carrying the      *)
(* failure text.                                                           *)
(***************************************************************************)
C3_FailureIsFrame ==
    \A i \in DOMAIN received :
        received[i].data = "Could not read from file"
            => received[i].ok /\ received[i].event = "body"

(***************************************************************************)
(* C4: the channel never holds more than 30 items; while the consumer is   *)
(* connected the sequence "received, then buffered" only ever grows by the *)
(* pushed item at its end, and a push completes only when fewer than 30    *)
(* items are buffered (otherwise the session stays in its send).           *)
(***************************************************************************)
C4_Backpressure ==
    /\ [](Len(chan) <= 30)
    /\ [](pushes = Len(Delivered))
    /\ [][rxOpen' =>
            \/ received' \o chan' = Delivered /\ pushes' = pushes
            \/ /\ Len(chan) < 30
               /\ pc = "send"
               /\ received' \o chan' = Append(Delivered, cur)
               /\ pushes' = pushes + 1]_vars

\* the 31st push is suspended: 30 items buffered, none taken yet
C4_Witness ==
    /\ pc = "send"
    /\ rxOpen
    /\ pushes = 30
    /\ Len(chan) = 30
    /\ received = <<>>

C6_NoEmitAfterClose ==
    [][/\ (pc = "send" /\ ~rxOpen /\ pc' # pc) => pc' = "done"
       /\ ~rxOpen => pushes' = pushes /\ chan' = <<>>
       /\ pc = "done" => /\ pc' = "done"
                         /\ UNCHANGED <<queue, taken, attempt, fails, sleeps,
                                        cur, readPath, pushes, watcher>>
                         /\ Len(chan') <= Len(chan)]_vars

\* terminated by a failed push, with raw events still queued
C6_Witness ==
    /\ pc = "done"
    /\ ~rxOpen
    /\ ~ErrTaken(taken)
    /\ queue # <<>>

(***************************************************************************)
(* C7 (as stated): whenever the session waits for its next event it has    *)
(* pushed exactly k+1 items, k being the number of data-modified and       *)
(* metadata-modified events it has taken.                                  *)
(***************************************************************************)
C7_Original ==
    (pc = "recv" /\ ~ErrTaken(taken))
        => pushes = Len(IdsOfKind(taken, {DataK, MetadataK})) + 1

(***************************************************************************)
(* C7 (amended): whenever the session waits for its next event it has      *)
(* pushed exactly k+1 items, k being the number of modify-class events     *)
(* (data-modified, metadata-modified or renamed) it has taken.             *)
(***************************************************************************)
C7_Amended ==
    (pc = "recv" /\ ~ErrTaken(taken))
        => pushes = Len(IdsOfKind(taken, {DataK, MetadataK, NameK})) + 1

\* two accepted events taken back to back, the same text rendered each time
C7_Witness ==
    /\ pc = "recv"
    /\ rxOpen
    /\ Len(taken) = 2
    /\ taken[1].kind = MetadataK
    /\ taken[2].kind = MetadataK
    /\ pushes = 3
    /\ Len(Delivered) = 3
    /\ Delivered[2].data = Delivered[3].data
    /\ Delivered[1].data = Delivered[2].data

(***************************************************************************)
(* C8: retry_read makes at most 3 attempts; when it returns Ok it has      *)
(* failed k < 3 times, made exactly k+1 attempts and slept k times, and    *)
(* the rendered text is that of the file as the (k+1)-th read found it;    *)
(* it returns the error exactly when 3 reads have failed.                  *)
(***************************************************************************)
C8_Retry ==
    /\ [](attempt <= 3 /\ fails <= attempt)
    /\ [](pc = "send" =>
            /\ cur.ok <=> fails < 3
            /\ cur.ok => attempt = fails + 1 /\ sleeps >= fails
            /\ ~cur.ok => attempt = 3)
    /\ [][(pc # "send" /\ pc' = "send" /\ cur'.ok) =>
            /\ file[readPath] # NoFile
            /\ cur'.data = to_html(file[readPath], html_mode)]_vars

C8_Witness ==
    /\ pc = "send"
    /\ cur.ok
    /\ fails = 2
    /\ attempt = 3
    /\ sleeps = 2

(***************************************************************************)
(* C9: before the first push the session is in its initial pass: it has    *)
(* no watcher, has taken no event and never waits for one; and the first   *)
(* item on the channel is the one of the initial pass.                     *)
(***************************************************************************)
C9_InitialFirst ==
    /\ pushes = 0 => /\ taken = <<>>
                     /\ queue = <<>>
                     /\ watcher = "none"
                     /\ Delivered = <<>>
                     /\ pc \in {"read", "sleep", "send", "done"}
                     /\ cur.trig = 0
                     /\ readPath = "target"
    /\ received # <<>> => received[1].trig = 0
    /\ (rxOpen /\ pushes > 0) => Delivered[1].trig = 0

C9_Witness ==
    /\ Len(received) >= 2
    /\ received[1].trig = 0
    /\ received[2].trig > 0

(***************************************************************************)
(* C10: from the step that takes a backend error on, the session is        *)
(* Terminated with its subscription released, pushes nothing, and takes    *)
(* nothing more from its queue.                                            *)
(***************************************************************************)
C10_BackendErrorFatal ==
    [][ErrTaken(taken') =>
         /\ SessionState' = "Terminated"
         /\ watcher' = "released"
         /\ pushes' = pushes
         /\ ErrTaken(taken) => queue' = queue /\ taken' = taken]_vars

\* an accepted event queued behind the error stays in the queue
C10_Witness ==
    /\ ErrTaken(taken)
    /\ pc = "done"
    /\ queue # <<>>
    /\ queue[1].kind \in ModifyKinds

(***************************************************************************)
(* C11 (as stated): when setting up the Event Source fails the session is  *)
(* Terminated from Starting, has returned the error, and has pushed no     *)
(* RenderResult.                                                           *)
(***************************************************************************)
C11_Original ==
    ret = "Err(watch)" =>
        /\ SessionState = "Terminated"
        /\ initial
        /\ taken = <<>>
        /\ pushes = 0

(***************************************************************************)
(* C11 (amended): the step in which setting up the Event Source fails      *)
(* takes the session from Starting to Terminated and returns the error; it *)
(* pushes nothing, the only RenderResult of the session being the initial  *)
(* one, pushed before the set-up; the session never was Watching and never *)
(* took an event.                                                          *)
(***************************************************************************)
C11_Amended ==
    /\ [][(pc = "watch" /\ pc' # "watch" /\ watcher' # "active") =>
            /\ SessionState = "Starting"
            /\ SessionState' = "Terminated"
            /\ ret' = "Err(watch)"
            /\ pushes' = pushes
            /\ chan' = chan]_vars
    /\ [](ret = "Err(watch)" =>
            /\ SessionState = "Terminated"
            /\ initial
            /\ taken = <<>>
            /\ pushes = 1
            /\ watcher = "none")

C11_Witness ==
    /\ ret = "Err(watch)"
    /\ pc = "done"
    /\ Len(received) = 1
    /\ received[1].trig = 0

(***************************************************************************)
(* C12 (as stated): every read of the session is a read of the WatchTarget *)
(* path.                                                                   *)
(***************************************************************************)
C12_ReadsTarget == readPath = "target"

(***************************************************************************)
(* C19 (as stated): a read that returns the error after 3 failed attempts  *)
(* has slept exactly twice.                                                *)
(***************************************************************************)
C19_SleepsBetweenOnly == (pc = "send" /\ ~cur.ok) => sleeps = 2

(***************************************************************************)
(* C14: a pass whose read succeeds on a text the renderer rejects produces *)
(* an Ok item with event name "body" whose data is the renderer's message; *)
(* the session neither returns nor changes state; the item is pushed like  *)
(* any other, once, and the session then waits for its next event.         *)
(***************************************************************************)
RenderMessage == "markdown error"

C14_RenderErrorIsFrame ==
    /\ [][(pc = "read" /\ pc' = "send" /\ file[readPath] = Malformed) =>
            /\ cur' = [ok |-> TRUE, event |-> "body", data |-> RenderMessage,
                       trig |-> cur.trig]
            /\ SessionState' = SessionState
            /\ ret' = "none"
            /\ pushes' = pushes]_vars
    /\ [][(pc = "send" /\ cur.data = RenderMessage /\ rxOpen /\ pc' # "send") =>
            /\ pushes' = pushes + 1
            /\ received' \o chan' = Append(Delivered, cur)
            /\ pc' = IF initial THEN "watch" ELSE "recv"
            /\ ret' = "none"]_vars
    /\ [](\A i \in DOMAIN Delivered :
            Delivered[i].data = RenderMessage
                => Delivered[i].ok /\ Delivered[i].event = "body")

\* a change-triggered pass on a rejected text was delivered, the session waits
C14_Witness ==
    /\ SessionState = "Watching"
    /\ pc = "recv"
    /\ pushes = 2
    /\ Len(received) = 2
    /\ received[2] = [ok |-> TRUE, event |-> "body", data |-> RenderMessage,
                      trig |-> 1]

(***************************************************************************)
(* C15: the policy flag of a session never changes; the markup rendered    *)
(* from the text <script>x</script> holds the script tag exactly when the  *)
(* flag is set, in the initial and in every later pass; no item holds a    *)
(* script tag while the flag is unset.                                     *)
(***************************************************************************)
\* of the markups of the model, the one with a script tag a browser would run
HasScriptTag(markup) == markup = "<script>x</script>"

C15_Policy ==
    /\ [][html_mode' = html_mode]_vars
    /\ [][(pc = "read" /\ pc' = "send" /\ file[readPath] = "<script>x</script>")
            => /\ cur'.ok
               /\ HasScriptTag(cur'.data) <=> html_mode]_vars
    /\ [](\A i \in DOMAIN Delivered :
            HasScriptTag(Delivered[i].data) => html_mode)

\* policy set: the initial and a later render both carry the literal tag
C15_Witness ==
    /\ html_mode
    /\ Len(received) >= 2
    /\ HasScriptTag(received[1].data)
    /\ HasScriptTag(received[2].data)
    /\ received[2].trig > 0

(***************************************************************************)
(* C16: a session in its send whose consumer is gone pushes nothing and    *)
(* delivers nothing any more, its next step ends in Terminated with the    *)
(* send error returned, and it does take that step: it is eventually       *)
(* Terminated.  (Here every departure happens while the session is         *)
(* suspended in a send with 30 items buffered.)                            *)
(***************************************************************************)
C16_BlockedPushFails ==
    /\ (pc = "send" /\ ~rxOpen) ~> (SessionState = "Terminated")
    /\ [][(rxOpen /\ ~rxOpen') => (pc' = "send" /\ cur' = cur)]_vars
    /\ [][(pc = "send" /\ ~rxOpen) =>
            /\ pushes' = pushes
            /\ received' = received
            /\ chan' = <<>>
            /\ pc' # pc => (pc' = "done" /\ ret' = "Err(send)")]_vars

\* terminated by the failure of the 31st push
C16_Witness ==
    /\ SessionState = "Terminated"
    /\ ret = "Err(send)"
    /\ ~rxOpen
    /\ pushes = 30
    /\ Len(IdsOfKind(taken, ModifyKinds)) = 30

(***************************************************************************)
(* C17                                                                     *)
(***************************************************************************)
\* the accepted event with id n waits in the queue
EvQueued(n) ==
    \E i \in DOMAIN queue : queue[i].id = n /\ queue[i].kind \in ModifyKinds

\* the event with id n was taken and the item of its pass was pushed
Processed(n) ==
    /\ \E i \in DOMAIN taken : taken[i].id = n
    /\ \E i \in DOMAIN Delivered : Delivered[i].trig = n

EventIds == 1 .. (MaxEnvLive + 1)

\* every notification of the backend is appended to the queue at once,
\* whatever the session is doing; the queue only loses its head, to the loop;
\* taken and queued events together are the produced ones in arrival order
QueueKeepsArrivals ==
    /\ [][(envOps' # envOps /\ watcher = "active") =>
            /\ Len(queue') = Len(queue) + 1
            /\ SubSeq(queue', 1, Len(queue)) = queue
            /\ queue'[Len(queue')].id = produced + 1
            /\ produced' = produced + 1
            /\ UNCHANGED sessionVars]_vars
    /\ [][(envOps' = envOps /\ queue' # queue) =>
            \/ pc = "recv" /\ queue' = Tail(queue)
               /\ taken' = Append(taken, [id |-> Head(queue).id,
                                          kind |-> Head(queue).kind])
            \/ pc = "watch" /\ queue = <<>> /\ Len(queue') = 1]_vars
    /\ [](/\ Len(taken) + Len(queue) = produced
          /\ \A i \in DOMAIN taken : taken[i].id = i
          /\ \A i \in DOMAIN queue : queue[i].id = Len(taken) + i)

(***************************************************************************)
(* C17 (as stated): the queue keeps the arrivals as above, and with a      *)
(* consumer that stays connected and keeps receiving every accepted event  *)
(* in the queue is eventually processed.                                   *)
(***************************************************************************)
C17_Original ==
    /\ QueueKeepsArrivals
    /\ \A n \in EventIds : EvQueued(n) ~> Processed(n)

(***************************************************************************)
(* C17 (amended): the queue keeps the arrivals as above, and with a        *)
(* consumer that stays connected and keeps receiving every accepted event  *)
(* in the queue is eventually processed, unless the session takes a        *)
(* backend error queued ahead of it.                                       *)
(***************************************************************************)
C17_Amended ==
    /\ QueueKeepsArrivals
    /\ \A n \in EventIds : EvQueued(n) ~> (Processed(n) \/ ErrTaken(taken))

\* an accepted event waits in the queue while the session sleeps its backoff
C17_Witness ==
    /\ pc = "sleep"
    /\ rxOpen
    /\ ~ErrTaken(taken)
    /\ queue # <<>>
    /\ queue[1].kind \in ModifyKinds

(***************************************************************************)
(* C18 (as stated): whenever the session waits with an empty queue and the *)
(* consumer has taken everything, the last RenderResult delivered is the   *)
(* rendering of the present content of the watched file.                   *)
(***************************************************************************)
C18_NoChangeMissed ==
    (rxOpen /\ pc = "recv" /\ queue = <<>> /\ chan = <<>>)
        => received[Len(received)].data = to_html(file["target"], html_mode)

(***************************************************************************)
(* C13: with two sessions on the same path, a step of one session or of    *)
(* its consumer changes nothing of the other session; a notification or a  *)
(* backend error only appends to the queues; each consumer holds exactly   *)
(* the items of its own session, one per accepted event that session took, *)
(* in order; and whatever the other session is doing (suspended on its     *)
(* full channel, without consumer, terminated) a session whose own state   *)
(* allows a step can take it.                                              *)
(***************************************************************************)
\* the first session's own state
own1 == <<pc, initial, readPath, attempt, fails, sleeps, cur, ret, queue, chan,
          rxOpen, received, watcher, taken, pushes, produced>>

Expected2 ==
    LET full == <<0>> \o IdsOfKind(s2.taken, ModifyKinds)
    IN  IF s2.pc \in {"read", "sleep", "send"}
        THEN SubSeq(full, 1, Len(full) - 1) ELSE full

\* the session's own state lets it take its next step
Ready1 ==
    \/ pc \in {"read", "sleep"}
    \/ pc = "watch"
    \/ pc = "send" /\ (~rxOpen \/ Len(chan) < ChannelCapacity)
    \/ pc = "recv" /\ queue # <<>>

Ready2 ==
    \/ s2.pc \in {"read", "sleep"}
    \/ s2.pc = "watch"
    \/ s2.pc = "send" /\ (~s2.rxOpen \/ Len(s2.chan) < ChannelCapacity)
    \/ s2.pc = "recv" /\ s2.queue # <<>>

C13_Independent ==
    /\ [][(envOps' = envOps /\ s2' # s2) => UNCHANGED vars1]_vars
    /\ [][(envOps' = envOps /\ own1' # own1) => s2' = s2]_vars
    /\ [][envOps' # envOps =>
            /\ UNCHANGED <<sessionVars, chan, rxOpen, received, watcher, taken,
                           pushes>>
            /\ s2' = [s2 EXCEPT !.queue = s2'.queue, !.produced = s2'.produced]
            /\ Len(queue') >= Len(queue)
            /\ Len(s2'.queue) >= Len(s2.queue)]_vars
    /\ [](rxOpen => Trigs(Delivered) = C1_Expected)
    /\ [](s2.rxOpen => Trigs(s2.received \o s2.chan) = Expected2)
    /\ [](Ready1 => ENABLED SessionStep)
    /\ [](Ready2 => ENABLED SessionStep2)

\* the second session stays suspended on its full channel, two notifications
\* waiting in its queue, while the first has delivered all three of its items
C13_Witness ==
    /\ s2.pc = "send"
    /\ s2.rxOpen
    /\ Len(s2.chan) = ChannelCapacity
    /\ Len(s2.queue) = 2
    /\ rxOpen
    /\ pc = "recv"
    /\ Len(received) = 3

\* the suspended state the second session may start in, as a state of the
\* first session (reached by SpecBP)
SuspendedAfter30 ==
    /\ <<pc, initial, readPath, attempt, fails, sleeps, cur, ret>>
         = <<Blocked2.pc, Blocked2.initial, Blocked2.readPath, Blocked2.attempt,
             Blocked2.fails, Blocked2.sleeps, Blocked2.cur, Blocked2.ret>>
    /\ <<queue, chan, rxOpen, received, watcher, taken, pushes, produced>>
         = <<Blocked2.queue, Blocked2.chan, Blocked2.rxOpen, Blocked2.received,
             Blocked2.watcher, Blocked2.taken, Blocked2.pushes,
             Blocked2.produced>>

====
